---- MODULE Spec2Model ----
(***************************************************************************)
(* Model of the scad code generator: ScadObject (src/src/scad_object.rs)   *)
(* and ScadFile (src/src/scad_file.rs).                                    *)
(*                                                                         *)
(* A Rust String is modelled as a sequence of one-character strings, so    *)
(* that concatenation, str::replace and i32::to_string are computed and    *)
(* not assumed.  A ScadObject is a record with the six fields of the       *)
(* struct; `children` is a sequence of such records.                       *)
(***************************************************************************)
EXTENDS Integers, Sequences, FiniteSets, TLC

\* ------------------------------------------------------------------ bounds

\* Number of ScadObject values (nodes) alive in the caller's hands at once.
MaxNodes == 3
\* Number of separate ScadObject bindings the caller holds at once.
MaxPool == 2
\* Number of top-level objects added to a ScadFile.
MaxObjects == 2

\* ----------------------------------------------------------------- strings

NL == "\n"
TAB == "\t"

RECURSIVE Concat(_)
\* The concatenation of a sequence of strings.
Concat(ss) == IF ss = <<>> THEN <<>> ELSE Head(ss) \o Concat(Tail(ss))

RECURSIVE replace(_, _, _)
\* str::replace(from, to) for a one-character pattern: every occurrence of
\* `from` in s is replaced by the string `to`, scanning left to right.
replace(s, from, to) ==
    IF s = <<>> THEN <<>>
    ELSE IF Head(s) = from THEN to \o replace(Tail(s), from, to)
    ELSE <<Head(s)>> \o replace(Tail(s), from, to)

\* ------------------------------------------------------------- ScadElement

\* The elements the repository's tests construct.
Elements == {"Translate", "Cube", "Union", "Difference"}

\* ScadElement::get_code for the elements above, as the tests state it:
\* Translate(0,0,0), Cube(1,1,1), Union, Difference.
ElementCode(e) ==
    CASE e = "Translate" ->
           <<"t","r","a","n","s","l","a","t","e","(","[","0",",","0",",","0","]",")">>
      [] e = "Cube" ->
           <<"c","u","b","e","(","[","1",",","1",",","1","]",")">>
      [] e = "Union" -> <<"u","n","i","o","n","(",")">>
      [] e = "Difference" ->
           <<"d","i","f","f","e","r","e","n","c","e","(",")">>

\* -------------------------------------------------------------- ScadObject

\* ScadObject::new
new(element) ==
    [element |-> element, children |-> <<>>, disable |-> FALSE,
     important |-> FALSE, highlight |-> FALSE, transparent |-> FALSE]

\* add_child with the child put first (insert(0, ..) for push).
add_child_front(self, statement) ==
    [self EXCEPT !.children = <<statement>> \o self.children]

\* ScadObject::add_child: push onto the children vector.
add_child(self, statement) ==
    [self EXCEPT !.children = Append(self.children, statement)]

\* all_modifiers_off with the highlight flag forgotten.
all_modifiers_off_keeps_highlight(self) ==
    [self EXCEPT !.disable = FALSE, !.important = FALSE, !.transparent = FALSE]

\* ScadObject::all_modifiers_off
all_modifiers_off(self) ==
    [self EXCEPT !.disable = FALSE, !.important = FALSE,
                 !.highlight = FALSE, !.transparent = FALSE]

\* The in-place setters (&mut self).
set_disable(self) == [all_modifiers_off(self) EXCEPT !.disable = TRUE]

set_important(self) == [all_modifiers_off(self) EXCEPT !.important = TRUE]

set_highlighted(self) == [all_modifiers_off(self) EXCEPT !.highlight = TRUE]

set_transparent(self) == [all_modifiers_off(self) EXCEPT !.transparent = TRUE]

\* The builder setters (mut self -> ScadObject): the value returned.
disable(self) == [all_modifiers_off(self) EXCEPT !.disable = TRUE]

important(self) == [all_modifiers_off(self) EXCEPT !.important = TRUE]

\* The builder highlight without the reset of the other flags.
highlight_no_reset(self) == [self EXCEPT !.highlight = TRUE]

highlight(self) == [all_modifiers_off(self) EXCEPT !.highlight = TRUE]

transparent(self) == [all_modifiers_off(self) EXCEPT !.transparent = TRUE]

\* The prefix chain with a branch for the disable flag ('*').
prefix_with_disable(self) ==
    IF self.important THEN <<"!">>
    ELSE IF self.highlight THEN <<"#">>
    ELSE IF self.transparent THEN <<"%">>
    ELSE IF self.disable THEN <<"*">>
    ELSE <<>>

\* The modifier prefix of get_code: the if / else if chain on the flags.
prefix(self) ==
    IF self.important THEN <<"!">>
    ELSE IF self.highlight THEN <<"#">>
    ELSE IF self.transparent THEN <<"%">>
    ELSE <<>>

\* The child's code with the newline after it left out.
child_line_no_newline(code) == <<TAB>> \o replace(code, NL, <<NL, TAB>>)

\* The child's code with only its first line indented (no replace).
child_line_first_line_only(code) == <<TAB>> \o code \o <<NL>>

\* One child's contribution to the block: a tab, the child's code with every
\* newline followed by a tab, and a newline.
child_line(code) == <<TAB>> \o replace(code, NL, <<NL, TAB>>) \o <<NL>>

RECURSIVE get_code(_)
\* get_code with a block for every node, also for one without children.
get_code_leaf_block(self) ==
    prefix(self) \o ElementCode(self.element) \o <<NL, "{", NL>>
       \o Concat([i \in 1..Len(self.children) |->
                     child_line(get_code(self.children[i]))])
       \o <<"}">>

\* ScadObject::get_code
get_code(self) ==
    LET result == prefix(self) \o ElementCode(self.element)
    IN  IF Len(self.children) = 0
        THEN result \o <<";">>
        ELSE result \o <<NL, "{", NL>>
               \o Concat([i \in 1..Len(self.children) |->
                             child_line(get_code(self.children[i]))])
               \o <<"}">>

\* ---------------------------------------------------------------- ScadFile

\* i32::to_string: decimal digits, most significant first, '-' for negatives.
Digit(d) == <<"0","1","2","3","4","5","6","7","8","9">>[d + 1]

RECURSIVE digits(_)
digits(n) == IF n < 10 THEN <<Digit(n)>>
             ELSE digits(n \div 10) \o <<Digit(n % 10)>>

to_string(n) == IF n < 0 THEN <<"-">> \o digits(0 - n) ELSE digits(n)

\* ScadFile::new
ScadFile_new == [objects |-> <<>>, detail |-> 0]

\* ScadFile::add_object: push onto the objects vector.
add_object(self, object) == [self EXCEPT !.objects = Append(self.objects, object)]

\* ScadFile::set_detail
set_detail(self, detail) == [self EXCEPT !.detail = detail]

\* ScadFile::get_code with the header only for a positive detail.
ScadFile_get_code_positive(self) ==
    LET header == IF self.detail > 0
                  THEN <<"$","f","n","=">> \o to_string(self.detail) \o <<";", NL>>
                  ELSE <<>>
    IN  header \o Concat([i \in 1..Len(self.objects) |->
                             get_code(self.objects[i]) \o <<NL>>])

\* ScadFile::get_code
ScadFile_get_code(self) ==
    LET header == IF self.detail # 0
                  THEN <<"$","f","n","=">> \o to_string(self.detail) \o <<";", NL>>
                  ELSE <<>>
    IN  header \o Concat([i \in 1..Len(self.objects) |->
                             get_code(self.objects[i]) \o <<NL>>])

\* The destination does not exist.
NoFile == <<"<absent>">>

\* The errors the byte sink reports when the destination cannot be opened.
OpenErrors == {"NotFound", "PermissionDenied"}

\* The error the byte sink reports when a write fails after the open.
WriteError == "StorageFull"

\* io::Result<()>: Ok(()) and Err(e); NotCalled stands for "no call made yet".
Ok == [tag |-> "Ok", err |-> "none"]

Err(e) == [tag |-> "Err", err |-> e]

NotCalled == [tag |-> "none", err |-> "none"]

\* std::fs::write(path, bytes), the byte sink: the set of its outcomes on a
\* destination holding `content`.  It creates or truncates the destination and
\* writes all the bytes; the open may fail, leaving the destination as it was;
\* a write may fail after the truncation, leaving a proper prefix of the bytes
\* (sampled here: nothing, or the first half).
fs_write(content, bytes) ==
    {[res |-> Ok, content |-> bytes]}
      \cup {[res |-> Err(e), content |-> content] : e \in OpenErrors}
      \cup {[res |-> Err(WriteError), content |-> SubSeq(bytes, 1, n)] :
               n \in {k \in {0, Len(bytes) \div 2} : k < Len(bytes)}}

\* write_to_file opening the destination for append.
write_to_file_append(self, content) ==
    {[ret |-> o.res,
      content |-> IF o.res = Ok /\ content # NoFile THEN content \o o.content
                  ELSE o.content,
      sink |-> o.res, calls |-> 1, printed |-> <<>>] :
         o \in fs_write(content, ScadFile_get_code(self))}

\* write_to_file as its doc comment has it: on a failure it prints a message
\* and returns false.
write_to_file_prints(self, content) ==
    {[ret |-> IF o.res = Ok THEN Ok ELSE Err("false"), content |-> o.content,
      sink |-> o.res, calls |-> 1,
      printed |-> IF o.res = Ok THEN <<>> ELSE <<"write failed">>] :
         o \in fs_write(content, ScadFile_get_code(self))}

\* ScadFile::write_to_file: the set of its outcomes.  `ret` is the value
\* returned, `content` the destination afterwards, `sink` what fs::write
\* returned, `calls` the number of calls made to fs::write and `printed` the
\* lines written to the console.
write_to_file(self, content) ==
    {[ret |-> o.res, content |-> o.content, sink |-> o.res, calls |-> 1,
      printed |-> <<>>] : o \in fs_write(content, ScadFile_get_code(self))}

\* ------------------------------------------------------------------- state

VARIABLES
    pool,       \* the ScadObject values the caller owns, one per binding
    twin,       \* the same objects, every setter call made in the other style
    lastSet,    \* history: the flag named by the last setter called on object i
    file,       \* the ScadFile
    log,        \* history: the arguments of the add_object calls, in call order
    lastDetail, \* history: the argument of the last set_detail call (0: none)
    disk,       \* content of the destination path
    before,     \* history: how that content was before the last write_to_file
                \* call: "absent", "longer" than the code to write, or "other"
    ret,        \* what the last write_to_file call returned
    sinkRet,    \* history: what fs::write returned in that call
    sinkCalls,  \* history: the calls that call made to fs::write
    console     \* the lines printed to the console

objVars == <<pool, twin, lastSet>>

fileVars == <<file, log, lastDetail, disk, before, ret, sinkRet, sinkCalls, console>>

vars == <<pool, twin, lastSet, file, log, lastDetail, disk, before, ret, sinkRet,
          sinkCalls, console>>

RECURSIVE SumSizes(_)
RECURSIVE Size(_)
\* The number of nodes of a tree, and of a sequence of trees.
Size(o) == 1 + SumSizes(o.children)

SumSizes(os) == IF os = <<>> THEN 0 ELSE Size(Head(os)) + SumSizes(Tail(os))

\* s without its i-th element.
Remove(s, i) == SubSeq(s, 1, i - 1) \o SubSeq(s, i + 1, Len(s))

\* The four flags a modifier setter can name.
Flags == {"disable", "important", "highlight", "transparent"}

\* The call of the in-place setter that names flag f: the object afterwards.
InPlaceSetter(f, o) ==
    CASE f = "disable" -> set_disable(o)
      [] f = "important" -> set_important(o)
      [] f = "highlight" -> set_highlighted(o)
      [] f = "transparent" -> set_transparent(o)

\* The call of the builder setter that names flag f: the object returned.
BuilderSetter(f, o) ==
    CASE f = "disable" -> disable(o)
      [] f = "important" -> important(o)
      [] f = "highlight" -> highlight(o)
      [] f = "transparent" -> transparent(o)

\* The two styles of a setter call.
Styles == {"in_place", "builder"}

OtherStyle(style) == IF style = "in_place" THEN "builder" ELSE "in_place"

ApplySetter(style, f, o) ==
    IF style = "in_place" THEN InPlaceSetter(f, o) ELSE BuilderSetter(f, o)

\* The elements the object actions construct, the detail values set_detail is
\* called with, and the objects add_object is called with.
ObjElements == {"Union", "Cube"}

Details == {-2147483647, -1, 0, 30}

SampleObjects ==
    { new("Union"),
      new("Difference"),
      add_child(important(new("Translate")),
                add_child(set_transparent(new("Cube")), disable(new("Union")))) }

Init ==
    /\ pool = <<>>
    /\ twin = <<>>
    /\ lastSet = <<>>
    /\ file = ScadFile_new
    /\ log = <<>>
    /\ lastDetail = 0
    /\ disk = NoFile
    /\ before = "absent"
    /\ ret = NotCalled
    /\ sinkRet = NotCalled
    /\ sinkCalls = 0
    /\ console = <<>>

\* let o = ScadObject::new(e);
New(e) ==
    /\ Len(pool) < MaxPool
    /\ SumSizes(pool) < MaxNodes
    /\ pool' = Append(pool, new(e))
    /\ twin' = Append(twin, new(e))
    /\ lastSet' = Append(lastSet, "none")
    /\ UNCHANGED fileVars

\* A setter call on object i, in either style:  pool[i].set_f();  or
\* let pool[i] = pool[i].f();  The twin takes the same call in the other style.
SetModifier(i, f, style) ==
    /\ i \in 1..Len(pool)
    /\ pool' = [pool EXCEPT ![i] = ApplySetter(style, f, @)]
    /\ twin' = [twin EXCEPT ![i] = ApplySetter(OtherStyle(style), f, @)]
    /\ lastSet' = [lastSet EXCEPT ![i] = f]
    /\ UNCHANGED fileVars

\* pool[i].add_child(pool[j]);  the child is moved into the parent.
AddChild(i, j) ==
    /\ i \in 1..Len(pool)
    /\ j \in 1..Len(pool)
    /\ i # j
    /\ pool' = Remove([pool EXCEPT ![i] = add_child(@, pool[j])], j)
    /\ twin' = Remove([twin EXCEPT ![i] = add_child(@, twin[j])], j)
    /\ lastSet' = Remove(lastSet, j)
    /\ UNCHANGED fileVars

\* file.set_detail(n);
SetDetail(n) ==
    /\ file' = set_detail(file, n)
    /\ lastDetail' = n
    /\ UNCHANGED <<log, disk, before, ret, sinkRet, sinkCalls, console>>
    /\ UNCHANGED objVars

\* file.add_object(o);
AddObject(o) ==
    /\ Len(file.objects) < MaxObjects
    /\ file' = add_object(file, o)
    /\ log' = Append(log, o)
    /\ UNCHANGED <<lastDetail, disk, before, ret, sinkRet, sinkCalls, console>>
    /\ UNCHANGED objVars

\* file.write_to_file(path)  (&self: the file is only read)
WriteToFile ==
    /\ \E w \in write_to_file(file, disk) :
          /\ ret' = w.ret
          /\ disk' = w.content
          /\ before' = IF disk = NoFile THEN "absent"
                        ELSE IF Len(disk) > Len(ScadFile_get_code(file)) THEN "longer"
                        ELSE "other"
          /\ sinkRet' = w.sink
          /\ sinkCalls' = w.calls
          /\ console' = console \o w.printed
    /\ UNCHANGED <<file, log, lastDetail>>
    /\ UNCHANGED objVars

\* Building object trees.
Next ==
    \/ \E e \in ObjElements : New(e)
    \/ \E i \in 1..MaxPool, f \in Flags, style \in Styles : SetModifier(i, f, style)
    \/ \E i \in 1..MaxPool, j \in 1..MaxPool : AddChild(i, j)

Spec == Init /\ [][Next]_vars

\* Building and persisting a file.
NextFile ==
    \/ \E n \in Details : SetDetail(n)
    \/ \E o \in SampleObjects : AddObject(o)
    \/ WriteToFile

SpecFile == Init /\ [][NextFile]_vars

\* ------------------------------------------------- vocabulary of the claims

RECURSIVE Nodes(_)
\* The nodes of a tree: the root and all its descendants.
Nodes(o) == {o} \cup UNION {Nodes(o.children[i]) : i \in 1..Len(o.children)}

\* Every node of every tree of a sequence of objects.
AllNodes(objs) == UNION {Nodes(objs[i]) : i \in 1..Len(objs)}

FlagValue(o, f) ==
    CASE f = "disable" -> o.disable
      [] f = "important" -> o.important
      [] f = "highlight" -> o.highlight
      [] f = "transparent" -> o.transparent

PrefixChars == {"!", "#", "%"}

\* The node with no flag set.
Plain(o) == [o EXCEPT !.disable = FALSE, !.important = FALSE,
                      !.highlight = FALSE, !.transparent = FALSE]

RECURSIVE Lines(_)
\* A text split at its newlines (a text with n newlines has n + 1 lines).
Lines(s) ==
    LET idx == {k \in 1..Len(s) : s[k] = NL}
    IN  IF idx = {} THEN <<s>>
        ELSE LET p == CHOOSE k \in idx : \A m \in idx : k <= m
             IN  <<SubSeq(s, 1, p - 1)>> \o Lines(SubSeq(s, p + 1, Len(s)))

\* n tab characters.
Tabs(n) == [k \in 1..n |-> TAB]

\* ------------------------------------------------------------------ claims

ExactlyOneFlag(objs) ==
    \A i \in 1..Len(objs) :
        lastSet[i] # "none" =>
            /\ Cardinality({f \in Flags : FlagValue(objs[i], f)}) = 1
            /\ FlagValue(objs[i], lastSet[i])

\* C1: after any non-empty sequence of modifier setter calls on an object
\* (in-place or builder), exactly one of its four flags is true, and it is the
\* flag the last call named.
C1_ExactlyOneFlag == \A objs \in {pool, twin} : ExactlyOneFlag(objs)

\* An object with a child whose last setter call was a disable.
C1_Witness ==
    \E i \in 1..Len(pool) :
        /\ lastSet[i] = "disable"
        /\ pool[i].disable
        /\ Len(pool[i].children) > 0

\* C2: the same sequence of modifier choices applied with the builder setters
\* and with the in-place setters yields equal nodes (element, children, and
\* the four flags); so does any sequence and the same sequence with the style
\* of every call exchanged.
C2_StylesAgree == twin = pool

\* A transparent parent of a flagged child, built both ways.
C2_Witness ==
    \E i \in 1..Len(pool) :
        /\ lastSet[i] = "transparent"
        /\ Len(pool[i].children) > 0
        /\ pool[i].children[1].important
        /\ twin[i].transparent

PrefixOfModifier(objs) ==
    /\ \A n \in AllNodes(objs) :
          LET code == get_code(n)
              plain == get_code(Plain(n))
          IN  /\ Head(plain) \notin PrefixChars
              /\ n.important => code = <<"!">> \o plain
              /\ n.highlight => code = <<"#">> \o plain
              /\ n.transparent => code = <<"%">> \o plain
              /\ (~n.important /\ ~n.highlight /\ ~n.transparent) => code = plain
    /\ \A i \in 1..Len(objs) :
          LET c == Head(get_code(objs[i]))
          IN  /\ lastSet[i] = "important" => c = "!"
              /\ lastSet[i] = "highlight" => c = "#"
              /\ lastSet[i] = "transparent" => c = "%"
              /\ lastSet[i] \in {"none", "disable"} => c \notin PrefixChars

\* C3: get_code puts at most one modifier character before the head: '!'
\* exactly for an important node, '#' for a highlighted one, '%' for a
\* transparent one, none for a node with no modifier or a disabled one; the
\* character is that of the last setter called.
C3_PrefixOfModifier == \A objs \in {pool, twin} : PrefixOfModifier(objs)

\* A disabled node and a highlighted node side by side.
C3_Witness ==
    \E i, j \in 1..Len(pool) :
        /\ lastSet[i] = "disable"
        /\ get_code(pool[i]) = get_code(Plain(pool[i]))
        /\ lastSet[j] = "highlight"
        /\ Head(get_code(pool[j])) = "#"

\* C4: the code of a node with children is the prefixed head, a line "{", for
\* each child in insertion order the lines of the child's code each behind one
\* more tab, and a last line "}" with no newline after it.
C4_BlockOfChildren ==
    \A n \in AllNodes(pool) :
        Len(n.children) > 0 =>
            LET code == get_code(n)
                childLines(c) == LET ls == Lines(get_code(c))
                                 IN  [k \in 1..Len(ls) |-> <<TAB>> \o ls[k]]
            IN  /\ Lines(code)
                     = <<prefix(n) \o ElementCode(n.element), <<"{">>>>
                         \o Concat([i \in 1..Len(n.children) |->
                                       childLines(n.children[i])])
                         \o << <<"}">> >>
                /\ code[Len(code)] = "}"

\* A node with two different children.
C4_Witness ==
    \E n \in AllNodes(pool) :
        /\ Len(n.children) = 2
        /\ n.children[1] # n.children[2]

\* C5: the code of a node with no children is the head, behind at most one
\* modifier character, and a ';'; it holds no newline and no brace.
C5_LeafStatement ==
    \A n \in AllNodes(pool) :
        Len(n.children) = 0 =>
            LET code == get_code(n)
            IN  /\ \E p \in {<<>>, <<"!">>, <<"#">>, <<"%">>} :
                      code = p \o ElementCode(n.element) \o <<";">>
                /\ \A k \in 1..Len(code) : code[k] \notin {NL, "{", "}"}

\* A highlighted leaf.
C5_Witness ==
    \E i \in 1..Len(pool) :
        /\ Len(pool[i].children) = 0
        /\ lastSet[i] = "highlight"

RECURSIVE DepthLines(_, _)
\* The lines a tree is to produce, each with the depth of the node it belongs
\* to: the head line, and for a node with children its "{" and "}" lines.
DepthLines(o, d) ==
    LET head == prefix(o) \o ElementCode(o.element)
    IN  IF Len(o.children) = 0
        THEN <<[depth |-> d, text |-> head \o <<";">>]>>
        ELSE <<[depth |-> d, text |-> head], [depth |-> d, text |-> <<"{">>]>>
               \o Concat([i \in 1..Len(o.children) |->
                             DepthLines(o.children[i], d + 1)])
               \o <<[depth |-> d, text |-> <<"}">>]>>

\* C9: in the code of a root, every line of a descendant at depth d (its head
\* line, its "{" line, its "}" line) begins with exactly d tabs.
C9_IndentationByDepth ==
    \A i \in 1..Len(pool) :
        LET ls == Lines(get_code(pool[i]))
            ds == DepthLines(pool[i], 0)
        IN  /\ Len(ls) = Len(ds)
            /\ \A k \in 1..Len(ds) :
                  /\ ls[k] = Tabs(ds[k].depth) \o ds[k].text
                  /\ Head(ds[k].text) # TAB

\* A root whose first child has a child of its own.
C9_Witness ==
    \E i \in 1..Len(pool) :
        /\ Len(pool[i].children) > 0
        /\ Len(pool[i].children[1].children) > 0

\* The code without its modifier character.
StripPrefix(code) == IF Head(code) \in PrefixChars THEN Tail(code) ELSE code

PrefixOfFlag(f) ==
    CASE f = "important" -> <<"!">>
      [] f = "highlight" -> <<"#">>
      [] f = "transparent" -> <<"%">>
      [] f = "disable" -> <<>>

\* A step from objs to objs2 that keeps the number of objects is a setter
\* call: only the modifier of the object it is called on may change.
SetterFrame(objs, objs2, last2) ==
    \A i \in 1..Len(objs) :
        \/ objs2[i] = objs[i]
        \/ /\ objs2[i].element = objs[i].element
           /\ objs2[i].children = objs[i].children
           /\ \A k \in 1..Len(objs) : k # i => objs2[k] = objs[k]
           /\ get_code(objs2[i])
                 = PrefixOfFlag(last2[i]) \o StripPrefix(get_code(objs[i]))

\* A step from objs to objs2 that takes one object away is an add_child call:
\* some object j has become the last child of some object i, and nothing else
\* has changed.
AddChildFrame(objs, objs2) ==
    \E i, j \in 1..Len(objs) :
        /\ i # j
        /\ objs2 = Remove([objs EXCEPT ![i] =
                              [objs[i] EXCEPT !.children = objs[i].children \o <<objs[j]>>]],
                          j)

\* C10: a setter call leaves the node's element, its children (and so every
\* descendant's flags) and every other object unchanged, and changes the code
\* only in the leading modifier character; add_child appends the child last
\* and leaves the parent's flags, element and earlier children unchanged.
C10_Frame ==
    [][ \A step \in {<<pool, pool'>>, <<twin, twin'>>} :
           /\ Len(step[2]) = Len(step[1]) => SetterFrame(step[1], step[2], lastSet')
           /\ Len(step[2]) < Len(step[1]) => AddChildFrame(step[1], step[2])
      ]_vars

\* An important parent of two children, the first one highlighted.
C10_Witness ==
    \E i \in 1..Len(pool) :
        /\ lastSet[i] = "important"
        /\ Len(pool[i].children) = 2
        /\ pool[i].children[1].highlight
        /\ Head(get_code(pool[i])) = "!"

DigitChars == {"0", "1", "2", "3", "4", "5", "6", "7", "8", "9"}

DigitValue(c) ==
    CASE c = "0" -> 0 [] c = "1" -> 1 [] c = "2" -> 2 [] c = "3" -> 3
      [] c = "4" -> 4 [] c = "5" -> 5 [] c = "6" -> 6 [] c = "7" -> 7
      [] c = "8" -> 8 [] c = "9" -> 9

RECURSIVE ParseNat(_)
\* The number a non-empty sequence of digits reads as.
ParseNat(ds) ==
    IF Len(ds) = 1 THEN DigitValue(ds[1])
    ELSE ParseNat(SubSeq(ds, 1, Len(ds) - 1)) * 10 + DigitValue(ds[Len(ds)])

\* A decimal integer literal: an optional '-', then digits with no leading 0.
IsIntLiteral(t) ==
    /\ t # <<>>
    /\ LET ds == IF Head(t) = "-" THEN Tail(t) ELSE t
       IN  /\ ds # <<>>
           /\ \A k \in 1..Len(ds) : ds[k] \in DigitChars
           /\ Len(ds) > 1 => ds[1] # "0"

ParseInt(t) == IF Head(t) = "-" THEN 0 - ParseNat(Tail(t)) ELSE ParseNat(t)

\* C6: after any sequence of set_detail and add_object calls, the file's code
\* is the line "$fn=<detail>;" exactly when the last detail set is not zero
\* (negative values included), then the code of each object in the order of
\* the add_object calls, each followed by one newline; with detail 0 and no
\* object it is empty.
C6_FileCode ==
    LET code == ScadFile_get_code(file)
        body == Concat([i \in 1..Len(log) |-> get_code(log[i]) \o <<NL>>])
    IN  /\ lastDetail = 0 => code = body
        /\ (lastDetail = 0 /\ log = <<>>) => code = <<>>
        /\ lastDetail # 0 =>
              /\ Len(code) >= 7
              /\ SubSeq(code, 1, 4) = <<"$", "f", "n", "=">>
              /\ LET semis == {k \in 5..Len(code) : code[k] = ";"}
                     p == CHOOSE k \in semis : \A m \in semis : k <= m
                     num == SubSeq(code, 5, p - 1)
                 IN  /\ semis # {}
                     /\ IsIntLiteral(num)
                     /\ ParseInt(num) = lastDetail
                     /\ (lastDetail < 0) = (Head(num) = "-")
                     /\ p < Len(code)
                     /\ code[p + 1] = NL
                     /\ SubSeq(code, p + 2, Len(code)) = body

\* A negative detail and two different objects.
C6_Witness ==
    /\ lastDetail = -2147483647
    /\ file.detail = lastDetail
    /\ Len(log) = 2
    /\ log[1] # log[2]
    /\ Len(file.objects) = 2

\* C7: when write_to_file succeeds, the destination holds exactly the text
\* get_code returns, whatever it held before.
C7_ReadBack ==
    [][ (ret'.tag = "Ok" /\ file' = file /\ WriteToFile) =>
            /\ disk' # NoFile
            /\ disk' = ScadFile_get_code(file') ]_vars

\* A successful write over a longer previous content.
C7_Witness ==
    /\ ret.tag = "Ok"
    /\ before = "longer"
    /\ Len(disk) > 0
    /\ disk = ScadFile_get_code(file)

====
